---- MODULE Spec2Model ----
(***************************************************************************)
(* ijq (src/main.go): an interactive front end for jq.  The model is the   *)
(* bubbletea model of main.go (type model, newModel, Update, jqFilter, jq) *)
(* and main(): the engine check, getContent, and the print on exit.        *)
(*                                                                         *)
(* Texts.  The Input Field text and a jq filter are sequences of           *)
(* characters.  A document and an engine output are kept as the sequence   *)
(* of their lines, i.e. as strings.Split(text, "\n") gives them: the empty *)
(* text is <<"">>, and a text that ends in a newline has "" as last line.  *)
(***************************************************************************)
EXTENDS Integers, Sequences, FiniteSets, TLC

VARIABLES
    content,        \* model.content: the document
    result,         \* model.result: lastResult
    viewport,       \* model.viewport: lines, YOffset, Width, Height, hasKeyMap
    textinput,      \* model.textinput: value, focus, Width
    helpWidth,      \* model.help.Width
    evalEnabled,    \* model.keys.eval enabled flag
    ready,          \* model.ready
    focusViewport,  \* model.focusViewport
    pc,             \* "running" | "quit" | "done" | "fatal"
    stdout,         \* lines written to standard output by main
    exitStatus,     \* process exit status, -1 while the process runs
    \* history of the run, written by the actions and read by no guard
    \* other than the MaxEvals cap
    nEvals,         \* number of calls of jq() so far
    lastCall,       \* arguments and engine outcome of the latest call of jq()
    lastEvent,      \* kind of the latest event Update handled
    tabParity,      \* number of tab events handled so far, modulo 2
    edited,         \* a key reached the focused Input Field since the latest jq()
    \* what main() finds at startup, and how far getContent has come
    env,            \* jqInstalled, args (flag.Args), files by name, stdin
    load,           \* sb: the strings.Builder of getContent; next: index of the
                    \* next file argument to read
    inFlight        \* number of engine subprocesses started and not yet returned

vars == << content, result, viewport, textinput, helpWidth, evalEnabled, ready,
           focusViewport, pc, stdout, exitStatus,
           nEvals, lastCall, lastEvent, tabParity, edited,
           env, load, inFlight >>

model == << content, result, viewport, textinput, helpWidth, evalEnabled, ready,
            focusViewport >>

hist == << nEvals, lastCall, lastEvent, tabParity, edited >>

\* left alone by every event of the session
aux == << env, load, inFlight >>

(***************************************************************************)
(* Bounds of the model.                                                    *)
(***************************************************************************)
MaxLen == 2     \* longest Input Field text typed
MaxEvals == 3   \* calls of jq() in one run, the initial one included
MaxArgs == 2    \* file arguments on the command line

Chars == {" ", ".", "a"}

\* terminal sizes <<Width, Height>> delivered by tea.WindowSizeMsg
Sizes == { <<20, 4>>, <<30, 6>> }

\* keys other than ctrl+c, tab and enter
Runes == Chars
Keys == Runes \cup {"backspace", "up", "down"}

\* documents, as lines: the empty document and {"a":1}
DocEmpty == << "" >>
DocObj == << "{\"a\":1}", "" >>
Docs == { DocEmpty, DocObj }

\* What getContent reads is kept as the sequence of its newline-terminated
\* lines, so that appending texts is \o; String() of the builder, as lines,
\* is that sequence followed by the empty last line.
Lines(pieces) == pieces \o << "" >>
Pieces(doc) == SubSeq(doc, 1, Len(doc) - 1)

\* the files of the startup environment: names, contents, and what reading does
FileNames == { "f1", "f2" }
FileData == { << >>, << "{\"a\":1}" >>, << "1", "2" >> }
FileStates == { "ok", "noopen", "readerr" }
ArgLists == UNION { [ 1..n -> FileNames ] : n \in 0..MaxArgs }
Envs ==
    [ jqInstalled : BOOLEAN,
      args : ArgLists,
      files : [ FileNames -> [ data : FileData, state : FileStates ] ],
      stdin : [ data : FileData, state : { "ok", "readerr" } ] ]

\* the environment of a run whose document came from standard input
EnvOfStdin(doc) ==
    [ jqInstalled |-> TRUE,
      args |-> << >>,
      files |-> [ n \in FileNames |-> [ data |-> << >>, state |-> "ok" ] ],
      stdin |-> [ data |-> Pieces(doc), state |-> "ok" ] ]

Max(a, b) == IF a > b THEN a ELSE b
Min(a, b) == IF a < b THEN a ELSE b

(***************************************************************************)
(* strings.TrimSpace and cmp.Or on character sequences.                    *)
(***************************************************************************)
IsSpace(c) == c \in {" ", "\t", "\n", "\r"}

RECURSIVE TrimLeft(_)
TrimLeft(s) ==
    IF s = << >> THEN s
    ELSE IF IsSpace(Head(s)) THEN TrimLeft(Tail(s)) ELSE s

RECURSIVE TrimRight(_)
TrimRight(s) ==
    IF s = << >> THEN s
    ELSE IF IsSpace(s[Len(s)]) THEN TrimRight(SubSeq(s, 1, Len(s) - 1)) ELSE s

TrimSpace(s) == TrimRight(TrimLeft(s))

\* cmp.Or(a, b): the first argument that is not the zero value ""
cmpOr(a, b) == IF a # << >> THEN a ELSE b

Dot == << "." >>

(***************************************************************************)
(* The external engine: the jq binary run on a document with a filter.     *)
(* It is a function of its two inputs.  Its text is standard output and    *)
(* standard error written to one buffer; status is its exit status.        *)
(* (--color-output only adds escape sequences inside the lines.)           *)
(***************************************************************************)
\* a path filter: one or more segments ".a+", e.g. .a  .aa  .a.a
IsPath(f) ==
    /\ Len(f) >= 2
    /\ f[1] = "."
    /\ f[Len(f)] = "a"
    /\ \A i \in 1..Len(f) : f[i] \in {".", "a"}
    /\ \A i \in 1..(Len(f) - 1) : ~(f[i] = "." /\ f[i + 1] = ".")

Compiles(f) == f = Dot \/ f = << ".", "." >> \/ IsPath(f)

\* the value a path filter gives on {"a":1}, segment by segment:
\* v is the value reached, seg the length of the segment being read
RECURSIVE EvalPath(_, _, _, _)
EvalPath(f, i, v, seg) ==
    LET stepped == IF v = "obj" THEN (IF seg = 1 THEN "num" ELSE "null")
                   ELSE IF v = "null" THEN "null"
                   ELSE "error"
    IN  IF i > Len(f) THEN stepped
        ELSE IF f[i] = "." THEN
                 (IF stepped = "error" THEN "error" ELSE EvalPath(f, i + 1, stepped, 0))
        ELSE EvalPath(f, i + 1, v, seg + 1)

PrettyObj == << "{", "  \"a\": 1", "}" >>

Engine(doc, f) ==
    IF ~Compiles(f) THEN
        [ text |-> << "jq: error: syntax error", "jq: 1 compile error", "" >>,
          status |-> 3 ]
    ELSE IF doc = DocEmpty THEN
        [ text |-> << "" >>, status |-> 0 ]
    ELSE IF f = Dot THEN
        [ text |-> PrettyObj \o << "" >>, status |-> 0 ]
    ELSE IF f = << ".", "." >> THEN
        [ text |-> PrettyObj \o << "1", "" >>, status |-> 0 ]
    ELSE LET v == EvalPath(f, 2, "obj", 0)
         IN  IF v = "error" THEN
                 [ text |-> << "jq: error (at <stdin>:1): Cannot index number", "" >>,
                   status |-> 5 ]
             ELSE [ text |-> << (IF v = "num" THEN "1" ELSE "null"), "" >>,
                    status |-> 0 ]

(***************************************************************************)
(* func jq(content, filter string) string                                  *)
(***************************************************************************)
\* exec.Command("jq", "--color-output", cmp.Or(filter, ".")), Stdin = content
jqCall(c, filter) == [ content |-> c, filter |-> cmpOr(filter, Dot) ]

\* jq() as it would be if it returned nothing when cmd.Run() reports an error
jqDropOnError(c, filter) ==
    IF Engine(jqCall(c, filter).content, jqCall(c, filter).filter).status # 0
    THEN << "" >>
    ELSE Engine(jqCall(c, filter).content, jqCall(c, filter).filter).text

\* cmd.Run() with Stdout and Stderr on one builder; the error is discarded
jq(c, filter) == Engine(jqCall(c, filter).content, jqCall(c, filter).filter).text

\* history record of one call
Called(c, filter) ==
    [ content |-> jqCall(c, filter).content,
      filter  |-> jqCall(c, filter).filter,
      status  |-> Engine(jqCall(c, filter).content, jqCall(c, filter).filter).status ]

(***************************************************************************)
(* func (m model) jqFilter() string                                        *)
(***************************************************************************)
\* jqFilter() as it would be without strings.TrimSpace
jqFilterNoTrim(text) == cmpOr(text, Dot)

jqFilterOf(text) == cmpOr(TrimSpace(text), Dot)

jqFilter == jqFilterOf(textinput.value)

(***************************************************************************)
(* bubbles/viewport as main.go uses it.                                    *)
(***************************************************************************)
\* the zero value of viewport.Model, which is what model.viewport is
\* until the first WindowSizeMsg
ZeroViewport ==
    [ lines |-> << >>, YOffset |-> 0, Width |-> 0, Height |-> 0, hasKeyMap |-> FALSE ]

\* viewport.New(width, height)
NewViewport(w, h) ==
    [ lines |-> << >>, YOffset |-> 0, Width |-> w, Height |-> h, hasKeyMap |-> TRUE ]

maxYOffset(vp) == Max(0, Len(vp.lines) - vp.Height)

clamp(v, low, high) == Min(high, Max(low, v))

SetYOffset(vp, n) == [ vp EXCEPT !.YOffset = clamp(n, 0, maxYOffset(vp)) ]

AtTop(vp) == vp.YOffset <= 0

AtBottom(vp) == vp.YOffset >= maxYOffset(vp)

GotoBottom(vp) == SetYOffset(vp, maxYOffset(vp))

\* SetContent replaces the lines; it moves the offset only when the offset
\* is past the last line
SetContent(vp, lines) ==
    LET v == [ vp EXCEPT !.lines = lines ]
    IN  IF v.YOffset > Len(lines) - 1 THEN GotoBottom(v) ELSE v

GotoTop(vp) == IF AtTop(vp) THEN vp ELSE SetYOffset(vp, 0)

LineDown(vp, n) == IF AtBottom(vp) \/ n = 0 THEN vp ELSE SetYOffset(vp, vp.YOffset + n)

LineUp(vp, n) == IF AtTop(vp) \/ n = 0 THEN vp ELSE SetYOffset(vp, vp.YOffset - n)

ViewDown(vp) == IF AtBottom(vp) THEN vp ELSE SetYOffset(vp, vp.YOffset + vp.Height)

\* viewport.Update(KeyMsg): the default key map binds down, up and space
\* (page down); the zero value has no key map and ignores every key
ViewportUpdate(vp, k) ==
    IF ~vp.hasKeyMap THEN vp
    ELSE IF k = "down" THEN LineDown(vp, 1)
    ELSE IF k = "up" THEN LineUp(vp, 1)
    ELSE IF k = " " THEN ViewDown(vp)
    ELSE vp

(***************************************************************************)
(* bubbles/textinput as main.go uses it; the cursor stays at the end.      *)
(***************************************************************************)
\* textinput.New() followed by ti.Focus()
NewTextinput == [ value |-> << >>, focus |-> TRUE, Width |-> 0 ]

\* textinput.Update(KeyMsg): a blurred field ignores every key
TextinputUpdate(ti, k) ==
    IF ~ti.focus THEN ti
    ELSE IF k \in Runes THEN [ ti EXCEPT !.value = Append(@, k) ]
    ELSE IF k = "backspace" THEN
        (IF ti.value = << >> THEN ti
         ELSE [ ti EXCEPT !.value = SubSeq(@, 1, Len(@) - 1) ])
    ELSE ti

(***************************************************************************)
(* Layout heights read by the WindowSizeMsg branch.                        *)
(***************************************************************************)
inputHeight == 1   \* lipgloss.Height(m.textinput.View()): one line
helpHeight == 2    \* one line of help under MarginTop(1)
margin == inputHeight + helpHeight

(***************************************************************************)
(* func newModel(content string) model, with main() up to p.Run()          *)
(***************************************************************************)
\* the model newModel returns, with the record of its one call of jq()
newModel(c) ==
    [ content       |-> c,
      result        |-> jq(c, Dot),
      viewport      |-> ZeroViewport,
      textinput     |-> NewTextinput,
      helpWidth     |-> 0,
      evalEnabled   |-> TRUE,
      ready         |-> FALSE,
      focusViewport |-> FALSE,
      called        |-> Called(c, Dot) ]

\* the session as p.Run() starts it, the document read from standard input
Init ==
    /\ content \in Docs
    /\ result = newModel(content).result
    /\ viewport = newModel(content).viewport
    /\ textinput = newModel(content).textinput
    /\ helpWidth = newModel(content).helpWidth
    /\ evalEnabled = newModel(content).evalEnabled
    /\ ready = newModel(content).ready
    /\ focusViewport = newModel(content).focusViewport
    /\ pc = "running"
    /\ stdout = << >>
    /\ exitStatus = -1
    /\ nEvals = 1
    /\ lastCall = newModel(content).called
    /\ lastEvent = "none"
    /\ tabParity = 0
    /\ edited = FALSE
    /\ env = EnvOfStdin(content)
    /\ load = [ sb |-> Pieces(content), next |-> 1 ]
    /\ inFlight = 0

\* The event loop of p.Run() is running.  tea.Quit is a command: the runtime
\* runs it beside the loop and its QuitMsg arrives through the same channel
\* as the events, so events may still reach Update while pc = "quit".
Alive == pc \in { "running", "quit" }

(***************************************************************************)
(* func (m model) Update(msg tea.Msg), one action per branch               *)
(***************************************************************************)
\* the WindowSizeMsg branch as it would be if every resize built the viewport anew
UpdateWindowSizeRebuild(w, h) ==
    /\ Alive
    /\ viewport' = SetContent(NewViewport(w, h - margin), result)
    /\ ready' = TRUE
    /\ textinput' = [ textinput EXCEPT !.Width = w ]
    /\ helpWidth' = w
    /\ lastEvent' = "resize"
    /\ UNCHANGED << content, result, evalEnabled, focusViewport, pc, stdout,
                    exitStatus, nEvals, lastCall, tabParity, edited >>
    /\ UNCHANGED aux

\* the WindowSizeMsg branch as it would be if a later resize forgot the margin
UpdateWindowSizeNoMargin(w, h) ==
    /\ Alive
    /\ IF ~ready
       THEN /\ viewport' = SetContent(NewViewport(w, h - margin), result)
            /\ ready' = TRUE
       ELSE /\ viewport' = [ viewport EXCEPT !.Width = w, !.Height = h ]
            /\ ready' = ready
    /\ textinput' = [ textinput EXCEPT !.Width = w ]
    /\ helpWidth' = w
    /\ lastEvent' = "resize"
    /\ UNCHANGED << content, result, evalEnabled, focusViewport, pc, stdout,
                    exitStatus, nEvals, lastCall, tabParity, edited >>
    /\ UNCHANGED aux

\* the WindowSizeMsg branch as it would be if the first resize showed the
\* result of the initial evaluation instead of m.result
UpdateWindowSizeInitialContent(w, h) ==
    /\ Alive
    /\ IF ~ready
       THEN /\ viewport' = SetContent(NewViewport(w, h - margin), jq(content, Dot))
            /\ ready' = TRUE
       ELSE /\ viewport' = [ viewport EXCEPT !.Width = w, !.Height = h - margin ]
            /\ ready' = ready
    /\ textinput' = [ textinput EXCEPT !.Width = w ]
    /\ helpWidth' = w
    /\ lastEvent' = "resize"
    /\ UNCHANGED << content, result, evalEnabled, focusViewport, pc, stdout,
                    exitStatus, nEvals, lastCall, tabParity, edited >>
    /\ UNCHANGED aux

\* case tea.WindowSizeMsg
UpdateWindowSize(w, h) ==
    /\ Alive
    /\ IF ~ready
       THEN /\ viewport' = SetContent(NewViewport(w, h - margin), result)
            /\ ready' = TRUE
       ELSE /\ viewport' = [ viewport EXCEPT !.Width = w, !.Height = h - margin ]
            /\ ready' = ready
    /\ textinput' = [ textinput EXCEPT !.Width = w ]
    /\ helpWidth' = w
    /\ lastEvent' = "resize"
    /\ UNCHANGED << content, result, evalEnabled, focusViewport, pc, stdout,
                    exitStatus, nEvals, lastCall, tabParity, edited >>
    /\ UNCHANGED aux

\* the ctrl+c branch as it would be if the key were taken only with the input focused
UpdateQuitInputOnly ==
    /\ Alive
    /\ ~focusViewport
    /\ pc' = "quit"
    /\ lastEvent' = "quit"
    /\ UNCHANGED << model, stdout, exitStatus, nEvals, lastCall, tabParity, edited >>
    /\ UNCHANGED aux

\* case "ctrl+c": return m, tea.Quit
UpdateQuit ==
    /\ Alive
    /\ pc' = "quit"
    /\ lastEvent' = "quit"
    /\ UNCHANGED << model, stdout, exitStatus, nEvals, lastCall, tabParity, edited >>
    /\ UNCHANGED aux

\* the tab branch as it would be if it only ever moved focus to the viewport
UpdateTabOneWay ==
    /\ Alive
    /\ textinput' = [ textinput EXCEPT !.focus = FALSE ]
    /\ evalEnabled' = FALSE
    /\ focusViewport' = TRUE
    /\ lastEvent' = "tab"
    /\ tabParity' = (tabParity + 1) % 2
    /\ UNCHANGED << content, result, viewport, helpWidth, ready, pc, stdout,
                    exitStatus, nEvals, lastCall, edited >>
    /\ UNCHANGED aux

\* the tab branch as it would be without m.keys.eval.SetEnabled
UpdateTabNoSetEnabled ==
    /\ Alive
    /\ IF ~focusViewport
       THEN /\ textinput' = [ textinput EXCEPT !.focus = FALSE ]
            /\ evalEnabled' = evalEnabled
       ELSE /\ textinput' = [ textinput EXCEPT !.focus = TRUE ]
            /\ evalEnabled' = evalEnabled
    /\ focusViewport' = ~focusViewport
    /\ lastEvent' = "tab"
    /\ tabParity' = (tabParity + 1) % 2
    /\ UNCHANGED << content, result, viewport, helpWidth, ready, pc, stdout,
                    exitStatus, nEvals, lastCall, edited >>
    /\ UNCHANGED aux

\* the tab branch as it would be if changing pane scrolled the viewport to the top
UpdateTabGotoTop ==
    /\ Alive
    /\ IF ~focusViewport
       THEN /\ textinput' = [ textinput EXCEPT !.focus = FALSE ]
            /\ evalEnabled' = FALSE
       ELSE /\ textinput' = [ textinput EXCEPT !.focus = TRUE ]
            /\ evalEnabled' = TRUE
    /\ focusViewport' = ~focusViewport
    /\ lastEvent' = "tab"
    /\ tabParity' = (tabParity + 1) % 2
    /\ viewport' = GotoTop(viewport)
    /\ UNCHANGED << content, result, helpWidth, ready, pc, stdout,
                    exitStatus, nEvals, lastCall, edited >>
    /\ UNCHANGED aux

\* case "tab"
UpdateTab ==
    /\ Alive
    /\ IF ~focusViewport
       THEN /\ textinput' = [ textinput EXCEPT !.focus = FALSE ]
            /\ evalEnabled' = FALSE
       ELSE /\ textinput' = [ textinput EXCEPT !.focus = TRUE ]
            /\ evalEnabled' = TRUE
    /\ focusViewport' = ~focusViewport
    /\ lastEvent' = "tab"
    /\ tabParity' = (tabParity + 1) % 2
    /\ UNCHANGED << content, result, viewport, helpWidth, ready, pc, stdout,
                    exitStatus, nEvals, lastCall, edited >>
    /\ UNCHANGED aux

\* the enter branch as it would be without the focus test
UpdateEnterAnyFocus ==
    /\ Alive
    /\ nEvals < MaxEvals
    /\ LET out == jq(content, jqFilter)
       IN  /\ result' = out
           /\ viewport' = GotoTop(SetContent(viewport, out))
           /\ nEvals' = nEvals + 1
           /\ lastCall' = Called(content, jqFilter)
           /\ edited' = FALSE
    /\ lastEvent' = "enter"
    /\ UNCHANGED << content, textinput, helpWidth, evalEnabled, ready,
                    focusViewport, pc, stdout, exitStatus, tabParity >>
    /\ UNCHANGED aux

\* the enter branch as it would be without m.viewport.GotoTop()
UpdateEnterNoGotoTop ==
    /\ Alive
    /\ focusViewport \/ nEvals < MaxEvals
    /\ IF ~focusViewport
       THEN LET out == jq(content, jqFilter)
            IN  /\ result' = out
                /\ viewport' = SetContent(viewport, out)
                /\ nEvals' = nEvals + 1
                /\ lastCall' = Called(content, jqFilter)
                /\ edited' = FALSE
       ELSE UNCHANGED << result, viewport, nEvals, lastCall, edited >>
    /\ lastEvent' = "enter"
    /\ UNCHANGED << content, textinput, helpWidth, evalEnabled, ready,
                    focusViewport, pc, stdout, exitStatus, tabParity >>
    /\ UNCHANGED aux

\* the enter branch as it would be without m.result = out
UpdateEnterNoResult ==
    /\ Alive
    /\ focusViewport \/ nEvals < MaxEvals
    /\ IF ~focusViewport
       THEN LET out == jq(content, jqFilter)
            IN  /\ result' = result
                /\ viewport' = GotoTop(SetContent(viewport, out))
                /\ nEvals' = nEvals + 1
                /\ lastCall' = Called(content, jqFilter)
                /\ edited' = FALSE
       ELSE UNCHANGED << result, viewport, nEvals, lastCall, edited >>
    /\ lastEvent' = "enter"
    /\ UNCHANGED << content, textinput, helpWidth, evalEnabled, ready,
                    focusViewport, pc, stdout, exitStatus, tabParity >>
    /\ UNCHANGED aux

\* the enter branch as it would be if it ran jq on the previous result
UpdateEnterOnResult ==
    /\ Alive
    /\ focusViewport \/ nEvals < MaxEvals
    /\ IF ~focusViewport
       THEN LET out == jq(result, jqFilter)
            IN  /\ result' = out
                /\ viewport' = GotoTop(SetContent(viewport, out))
                /\ nEvals' = nEvals + 1
                /\ lastCall' = Called(result, jqFilter)
                /\ edited' = FALSE
       ELSE UNCHANGED << result, viewport, nEvals, lastCall, edited >>
    /\ lastEvent' = "enter"
    /\ UNCHANGED << content, textinput, helpWidth, evalEnabled, ready,
                    focusViewport, pc, stdout, exitStatus, tabParity >>
    /\ UNCHANGED aux

\* the enter branch as it would be if it passed the untrimmed text to jq
UpdateEnterRawText ==
    /\ Alive
    /\ focusViewport \/ nEvals < MaxEvals
    /\ IF ~focusViewport
       THEN LET out == jq(content, textinput.value)
            IN  /\ result' = out
                /\ viewport' = GotoTop(SetContent(viewport, out))
                /\ nEvals' = nEvals + 1
                /\ lastCall' = Called(content, textinput.value)
                /\ edited' = FALSE
       ELSE UNCHANGED << result, viewport, nEvals, lastCall, edited >>
    /\ lastEvent' = "enter"
    /\ UNCHANGED << content, textinput, helpWidth, evalEnabled, ready,
                    focusViewport, pc, stdout, exitStatus, tabParity >>
    /\ UNCHANGED aux

\* the enter branch as it would be if it ran jq once for m.result and once more
\* for the viewport
UpdateEnterTwice ==
    /\ Alive
    /\ focusViewport \/ nEvals < MaxEvals
    /\ IF ~focusViewport
       THEN LET out == jq(content, jqFilter)
            IN  /\ result' = out
                /\ viewport' = GotoTop(SetContent(viewport, out))
                /\ nEvals' = nEvals + 2
                /\ lastCall' = Called(content, jqFilter)
                /\ edited' = FALSE
       ELSE UNCHANGED << result, viewport, nEvals, lastCall, edited >>
    /\ lastEvent' = "enter"
    /\ UNCHANGED << content, textinput, helpWidth, evalEnabled, ready,
                    focusViewport, pc, stdout, exitStatus, tabParity >>
    /\ UNCHANGED aux

\* case "enter"
UpdateEnter ==
    /\ Alive
    /\ focusViewport \/ nEvals < MaxEvals
    /\ IF ~focusViewport
       THEN LET out == jq(content, jqFilter)
            IN  /\ result' = out
                /\ viewport' = GotoTop(SetContent(viewport, out))
                /\ nEvals' = nEvals + 1
                /\ lastCall' = Called(content, jqFilter)
                /\ edited' = FALSE
       ELSE UNCHANGED << result, viewport, nEvals, lastCall, edited >>
    /\ lastEvent' = "enter"
    /\ UNCHANGED << content, textinput, helpWidth, evalEnabled, ready,
                    focusViewport, pc, stdout, exitStatus, tabParity >>
    /\ UNCHANGED aux

\* the default branch as it would be if the key went to both widgets
UpdateKeyBoth(k) ==
    /\ Alive
    /\ focusViewport \/ k \notin Runes \/ Len(textinput.value) < MaxLen
    /\ IF ~focusViewport
       THEN /\ textinput' = TextinputUpdate(textinput, k)
            /\ viewport' = ViewportUpdate(viewport, k)
            /\ edited' = TRUE
       ELSE /\ viewport' = ViewportUpdate(viewport, k)
            /\ textinput' = TextinputUpdate(textinput, k)
            /\ edited' = edited
    /\ lastEvent' = "key"
    /\ UNCHANGED << content, result, helpWidth, evalEnabled, ready, focusViewport,
                    pc, stdout, exitStatus, nEvals, lastCall, tabParity >>
    /\ UNCHANGED aux

\* default: the key goes to the focused widget
UpdateKey(k) ==
    /\ Alive
    /\ focusViewport \/ k \notin Runes \/ Len(textinput.value) < MaxLen
    /\ IF ~focusViewport
       THEN /\ textinput' = TextinputUpdate(textinput, k)
            /\ viewport' = viewport
            /\ edited' = TRUE
       ELSE /\ viewport' = ViewportUpdate(viewport, k)
            /\ textinput' = textinput
            /\ edited' = edited
    /\ lastEvent' = "key"
    /\ UNCHANGED << content, result, helpWidth, evalEnabled, ready, focusViewport,
                    pc, stdout, exitStatus, nEvals, lastCall, tabParity >>
    /\ UNCHANGED aux

(***************************************************************************)
(* func main(), after p.Run() returns                                      *)
(***************************************************************************)
\* tm, err := p.Run() with err # nil: log.Fatal(err)
MainRunFails ==
    /\ Alive
    /\ pc' = "fatal"
    /\ exitStatus' = 1
    /\ UNCHANGED << model, stdout, hist >>
    /\ UNCHANGED aux

\* the end of main as it would be if it printed the Input Field text as typed
MainPrintRaw ==
    /\ pc = "quit"
    /\ stdout' = Append(stdout, textinput.value)
    /\ exitStatus' = 0
    /\ pc' = "done"
    /\ UNCHANGED << model, hist >>
    /\ UNCHANGED aux

\* m := tm.(model); fmt.Println(m.jqFilter()); return from main
MainPrint ==
    /\ pc = "quit"
    /\ stdout' = Append(stdout, jqFilter)
    /\ exitStatus' = 0
    /\ pc' = "done"
    /\ UNCHANGED << model, hist >>
    /\ UNCHANGED aux

Next ==
    \/ \E s \in Sizes : UpdateWindowSize(s[1], s[2])
    \/ UpdateQuit
    \/ UpdateTab
    \/ UpdateEnter
    \/ \E k \in Keys : UpdateKey(k)
    \/ MainRunFails
    \/ MainPrint

Spec == Init /\ [][Next]_vars

(***************************************************************************)
(* func main() up to p.Run(), with getContent and readFile: the startup    *)
(* of the process, from any environment, up to the creation of the session *)
(***************************************************************************)
\* no call of jq() yet
NoCall == [ content |-> << >>, filter |-> << >>, status |-> -1 ]

StartInit ==
    /\ env \in Envs
    /\ load = [ sb |-> << >>, next |-> 1 ]
    /\ pc = "start"
    /\ stdout = << >>
    /\ exitStatus = -1
    /\ content = << >>
    /\ result = << >>
    /\ viewport = ZeroViewport
    /\ textinput = [ value |-> << >>, focus |-> FALSE, Width |-> 0 ]
    /\ helpWidth = 0
    /\ evalEnabled = FALSE
    /\ ready = FALSE
    /\ focusViewport = FALSE
    /\ nEvals = 0
    /\ lastCall = NoCall
    /\ lastEvent = "none"
    /\ tabParity = 0
    /\ edited = FALSE
    /\ inFlight = 0

\* log.Fatal: a line on standard error and os.Exit(1)
Fatal ==
    /\ pc' = "fatal"
    /\ exitStatus' = 1

\* what io.Copy has written to the builder when the source is read:
\* everything, or on a read error some proper prefix of it
Copied(src) ==
    IF src.state = "ok" THEN { src.data }
    ELSE { SubSeq(src.data, 1, k) : k \in 0..Max(0, Len(src.data) - 1) }

\* _, err := exec.LookPath("jq")
MainLookPath ==
    /\ pc = "start"
    /\ IF env.jqInstalled
       THEN pc' = "getContent" /\ exitStatus' = exitStatus
       ELSE Fatal
    /\ UNCHANGED << model, stdout, hist, aux >>

\* getContent with flag.NArg() = 0: io.Copy(&sb, os.Stdin)
GetContentStdin ==
    /\ pc = "getContent"
    /\ Len(env.args) = 0
    /\ \E got \in Copied(env.stdin) :
          load' = [ load EXCEPT !.sb = @ \o got ]
    /\ IF env.stdin.state = "ok"
       THEN pc' = "newModel" /\ exitStatus' = exitStatus
       ELSE Fatal
    /\ UNCHANGED << model, stdout, hist, env, inFlight >>

\* the loop of getContent as it would be if a file that fails were skipped
GetContentFileSkip ==
    /\ pc = "getContent"
    /\ Len(env.args) > 0
    /\ load.next <= Len(env.args)
    /\ LET f == env.files[env.args[load.next]]
       IN  IF f.state = "noopen"
           THEN load' = [ load EXCEPT !.next = @ + 1 ]
           ELSE \E got \in Copied(f) :
                   load' = [ sb |-> load.sb \o got, next |-> load.next + 1 ]
    /\ UNCHANGED << model, pc, stdout, exitStatus, hist, env, inFlight >>

\* the loop of getContent as it would be if readFile wrote a newline after
\* each file
GetContentFileSeparated ==
    /\ pc = "getContent"
    /\ Len(env.args) > 0
    /\ load.next <= Len(env.args)
    /\ LET f == env.files[env.args[load.next]]
       IN  IF f.state = "noopen"
           THEN load' = load /\ Fatal
           ELSE /\ \E got \in Copied(f) :
                      load' = [ sb |-> load.sb \o got \o << "" >>,
                                next |-> IF f.state = "ok" THEN load.next + 1
                                         ELSE load.next ]
                /\ IF f.state = "ok"
                   THEN pc' = pc /\ exitStatus' = exitStatus
                   ELSE Fatal
    /\ UNCHANGED << model, stdout, hist, env, inFlight >>

\* one turn of the loop of getContent: readFile(&sb, name), break on error
GetContentFile ==
    /\ pc = "getContent"
    /\ Len(env.args) > 0
    /\ load.next <= Len(env.args)
    /\ LET f == env.files[env.args[load.next]]
       IN  IF f.state = "noopen"
           THEN load' = load /\ Fatal
           ELSE /\ \E got \in Copied(f) :
                      load' = [ sb |-> load.sb \o got,
                                next |-> IF f.state = "ok" THEN load.next + 1
                                         ELSE load.next ]
                /\ IF f.state = "ok"
                   THEN pc' = pc /\ exitStatus' = exitStatus
                   ELSE Fatal
    /\ UNCHANGED << model, stdout, hist, env, inFlight >>

\* the loop ended without error: return sb.String(), nil
GetContentReturn ==
    /\ pc = "getContent"
    /\ Len(env.args) > 0
    /\ load.next > Len(env.args)
    /\ pc' = "newModel"
    /\ UNCHANGED << model, stdout, exitStatus, hist, aux >>

\* tea.NewProgram(newModel(content), ...) and p.Run() starting the session
MainNewModel ==
    /\ pc = "newModel"
    /\ content' = newModel(Lines(load.sb)).content
    /\ result' = newModel(Lines(load.sb)).result
    /\ viewport' = newModel(Lines(load.sb)).viewport
    /\ textinput' = newModel(Lines(load.sb)).textinput
    /\ helpWidth' = newModel(Lines(load.sb)).helpWidth
    /\ evalEnabled' = newModel(Lines(load.sb)).evalEnabled
    /\ ready' = newModel(Lines(load.sb)).ready
    /\ focusViewport' = newModel(Lines(load.sb)).focusViewport
    /\ nEvals' = nEvals + 1
    /\ lastCall' = newModel(Lines(load.sb)).called
    /\ pc' = "running"
    /\ UNCHANGED << stdout, exitStatus, lastEvent, tabParity, edited, aux >>

StartNext ==
    \/ MainLookPath
    \/ GetContentStdin
    \/ GetContentFile
    \/ GetContentReturn
    \/ MainNewModel

SpecStartup == StartInit /\ [][StartNext]_vars

(***************************************************************************)
(* The session with the enter branch in two steps: up to cmd.Run() inside  *)
(* jq(), where Update waits for the engine, and from its return on.  The   *)
(* event loop calls Update itself, so nothing else runs between the two.   *)
(***************************************************************************)
Evaluating == { "evaluating", "evaluating-quit" }

\* the enter branch as it would be if the engine were started from a command
\* that the runtime runs beside the event loop
UpdateEnterCallAsync ==
    /\ Alive
    /\ ~focusViewport
    /\ nEvals < MaxEvals
    /\ nEvals' = nEvals + 1
    /\ lastCall' = Called(content, jqFilter)
    /\ inFlight' = inFlight + 1
    /\ UNCHANGED << model, pc, stdout, exitStatus, lastEvent, tabParity, edited,
                    env, load >>

\* case "enter" with the input focused, up to cmd.Run(): the engine is started
UpdateEnterCall ==
    /\ Alive
    /\ ~focusViewport
    /\ nEvals < MaxEvals
    /\ nEvals' = nEvals + 1
    /\ lastCall' = Called(content, jqFilter)
    /\ inFlight' = inFlight + 1
    /\ pc' = IF pc = "running" THEN "evaluating" ELSE "evaluating-quit"
    /\ UNCHANGED << model, stdout, exitStatus, lastEvent, tabParity, edited,
                    env, load >>

\* cmd.Run() returns: the rest of jq() and of the enter branch
UpdateEnterReturn ==
    /\ pc \in Evaluating
    /\ LET out == jq(content, jqFilter)
       IN  /\ result' = out
           /\ viewport' = GotoTop(SetContent(viewport, out))
    /\ edited' = FALSE
    /\ lastEvent' = "enter"
    /\ inFlight' = inFlight - 1
    /\ pc' = IF pc = "evaluating" THEN "running" ELSE "quit"
    /\ UNCHANGED << content, textinput, helpWidth, evalEnabled, ready,
                    focusViewport, stdout, exitStatus, nEvals, lastCall,
                    tabParity, env, load >>

\* case "enter" with the viewport focused
UpdateEnterBlurred == focusViewport /\ UpdateEnter

NextEval ==
    \/ \E s \in Sizes : UpdateWindowSize(s[1], s[2])
    \/ UpdateQuit
    \/ UpdateTab
    \/ UpdateEnterBlurred
    \/ UpdateEnterCall
    \/ UpdateEnterReturn
    \/ \E k \in Keys : UpdateKey(k)
    \/ MainRunFails
    \/ MainPrint

SpecEval == Init /\ [][NextEval]_vars

(***************************************************************************)
(* Vocabulary of the properties.                                           *)
(***************************************************************************)
InputFocused == ~focusViewport
ViewportFocused == focusViewport

\* the state right after Update handled a submit while InputFocused
\* (enter leaves the focus as it was, and every other event resets lastEvent)
AfterAcceptedSubmit == lastEvent = "enter" /\ InputFocused

\* this step is a submit handled while InputFocused
AcceptedSubmitStep == InputFocused /\ lastEvent' = "enter" /\ nEvals' = nEvals + 1

WhitespaceOnly(s) == \A k \in 1..Len(s) : IsSpace(s[k])

\* t is s without its leading and trailing whitespace: s is whitespace,
\* then t, then whitespace, and t neither starts nor ends with whitespace
IsTrimOf(t, s) ==
    /\ t = << >> \/ (~IsSpace(t[1]) /\ ~IsSpace(t[Len(t)]))
    /\ \E i \in 1..(Len(s) + 1), j \in 0..Len(s) :
          /\ t = SubSeq(s, i, j)
          /\ \A k \in 1..Len(s) : (k < i \/ k > j) => IsSpace(s[k])

\* e is the effective query expression of the Input Field text s
IsEffectiveExpression(e, s) ==
    \E t \in { SubSeq(s, i, j) : i \in 1..(Len(s) + 1), j \in 0..Len(s) } :
        /\ IsTrimOf(t, s)
        /\ e = IF t = << >> THEN Dot ELSE t

\* C1: a submit (enter) received while ViewportFocused makes no evaluation
\* call and leaves lastResult, the Viewport content and scroll offset, the
\* Input Field text and the focus unchanged.
C1_SubmitInViewportIsNoOp ==
    [][ (ViewportFocused /\ lastEvent' = "enter")
          => /\ nEvals' = nEvals
             /\ lastCall' = lastCall
             /\ result' = result
             /\ viewport' = viewport
             /\ textinput' = textinput
             /\ focusViewport' = focusViewport ]_vars

\* C1 witness: enter was handled with the viewport focused, scrolled down, and
\* an Input Field text whose expression differs from the one last evaluated.
C1_Witness ==
    /\ lastEvent = "enter"
    /\ ViewportFocused
    /\ viewport.YOffset > 0
    /\ jqFilter # lastCall.filter

\* C2: the session starts InputFocused; the focus is ViewportFocused exactly
\* after an odd number of tab events, and only a tab event changes it.
C2_FocusIsToggleParity ==
    /\ InputFocused
    /\ [](ViewportFocused <=> tabParity = 1)
    /\ [][ lastEvent' # "tab" => focusViewport' = focusViewport ]_vars

\* C2 witness: an even, non-zero number of toggles was handled and the focus
\* is back on the Input Field.
C2_Witness == lastEvent = "tab" /\ tabParity = 0 /\ InputFocused

\* C3: after every submit handled while InputFocused the Viewport's scroll
\* offset is 0.
C3_SubmitScrollsToTop == AfterAcceptedSubmit => viewport.YOffset = 0

\* C3 witness: a submit was accepted after the layout was initialised and the
\* new content is longer than the Viewport, so that it had been scrollable.
C3_Witness ==
    /\ AfterAcceptedSubmit
    /\ ready
    /\ nEvals > 1
    /\ maxYOffset(viewport) > 0
    /\ viewport.YOffset = 0

\* C4: ready starts false, every resize leaves it true, it never goes back to
\* false, and a resize received while ready changes nothing but the width and
\* height fields.
C4_ReadyOnceResizeKeepsView ==
    /\ ~ready
    /\ [](lastEvent = "resize" => ready)
    /\ [][ ~ready /\ ready' => lastEvent' = "resize" ]_vars
    /\ [][ ready => ready' ]_vars
    /\ [][ (ready /\ lastEvent' = "resize")
             => /\ viewport'.lines = viewport.lines
                /\ viewport'.YOffset = viewport.YOffset
                /\ viewport'.hasKeyMap = viewport.hasKeyMap
                /\ textinput'.value = textinput.value
                /\ textinput'.focus = textinput.focus
                /\ UNCHANGED << content, result, evalEnabled, focusViewport,
                                nEvals, lastCall >> ]_vars

\* C4 witness: a resize was handled with the Viewport scrolled down, which
\* only a Viewport that was already initialised can be.
C4_Witness == lastEvent = "resize" /\ ready /\ viewport.YOffset > 0

\* C5: lastResult is the output of the most recent evaluation: of
\* (document, identity) until the first accepted submit, and from then on of
\* (document, e), e being the effective expression when that submit was handled.
C5_ResultIsLatestEvaluation ==
    /\ [](result = Engine(content, lastCall.filter).text)
    /\ [](nEvals = 1 => lastCall.filter = Dot)
    /\ [][ nEvals' # nEvals
             => /\ AcceptedSubmitStep
                /\ IsEffectiveExpression(lastCall'.filter, textinput.value)
                /\ result' = Engine(content, lastCall'.filter).text ]_vars

\* C5 witness: a submit was accepted and lastResult is no longer the initial
\* identity result.
C5_Witness == nEvals > 1 /\ result # Engine(content, Dot).text

\* C6: no event changes the document, and every evaluation call receives it.
C6_DocumentIsFixedInput ==
    /\ [](lastCall.content = content)
    /\ [][ content' = content ]_vars

\* C6 witness: a submit was evaluated while the previous result differed from
\* the document.
C6_Witness ==
    /\ nEvals = 3
    /\ result # content
    /\ lastCall.content = content

\* C7: the expression passed to the engine by a submit is the Input Field text
\* without leading and trailing whitespace, or identity when that is empty; for
\* an empty or whitespace-only text the result is that of identity.
C7_SubmitUsesTrimmedOrIdentity ==
    AfterAcceptedSubmit =>
        /\ IsEffectiveExpression(lastCall.filter, textinput.value)
        /\ WhitespaceOnly(textinput.value)
             => /\ lastCall.filter = Dot
                /\ result = Engine(content, Dot).text

\* C7 witness: a submit was accepted with a non-empty whitespace-only text.
C7_Witness ==
    /\ AfterAcceptedSubmit
    /\ textinput.value # << >>
    /\ WhitespaceOnly(textinput.value)

\* C8: on normal quit standard output holds one line, the effective expression
\* of the Input Field text at quit, and the exit status is 0.
C8_QuitPrintsEffectiveExpression ==
    pc = "done" =>
        /\ Len(stdout) = 1
        /\ IsEffectiveExpression(stdout[1], textinput.value)
        /\ exitStatus = 0

\* C8 witness: quit with the viewport focused and a text with whitespace
\* around it that was never submitted.
C8_Witness ==
    /\ pc = "done"
    /\ ViewportFocused
    /\ nEvals = 1
    /\ textinput.value # << >>
    /\ IsSpace(textinput.value[1])
    /\ ~WhitespaceOnly(textinput.value)

\* C9 as stated: the expression written on exit is the one passed to the most
\* recent evaluation.
C9_AsStated == pc = "done" => stdout = << lastCall.filter >>

\* C9 amended: the expression written on exit is the one passed to the most
\* recent evaluation when no key reached the Input Field since that evaluation.
C9_QuitPrintsLastUsedIfUnedited ==
    (pc = "done" /\ ~edited) => stdout = << lastCall.filter >>

\* C9 witness: quit right after submitting an expression other than identity.
C9_Witness ==
    /\ pc = "done"
    /\ ~edited
    /\ nEvals > 1
    /\ lastCall.filter # Dot
    /\ textinput.value # lastCall.filter

\* C10: a submit whose engine run fails leaves the session running and
\* InputFocused with the engine's text as lastResult and Viewport content, and
\* in the state it leaves every event is still accepted.
C10_EngineFailureIsContent ==
    /\ [][ (AcceptedSubmitStep /\ lastCall'.status # 0)
             => /\ pc' = pc
                /\ Alive'
                /\ exitStatus' = -1
                /\ result' = Engine(content, lastCall'.filter).text
                /\ viewport'.lines = result'
                /\ InputFocused'
                /\ textinput'.focus
                /\ evalEnabled' ]_vars
    /\ []( (Alive /\ AfterAcceptedSubmit /\ lastCall.status # 0)
             => /\ ENABLED UpdateTab
                /\ ENABLED UpdateQuit
                /\ \A s \in Sizes : ENABLED UpdateWindowSize(s[1], s[2])
                /\ ENABLED UpdateKey("backspace")
                /\ nEvals < MaxEvals => ENABLED UpdateEnter )

\* C10 witness: a submit was accepted whose engine run failed, and its
\* diagnostic text is on display in an initialised Viewport.
C10_Witness ==
    /\ ready
    /\ AfterAcceptedSubmit
    /\ lastCall.status # 0
    /\ viewport.lines = result
    /\ Alive

\* the files named by args[i..], appended in that order
RECURSIVE ConcatFrom(_, _, _)
ConcatFrom(files, args, i) ==
    IF i > Len(args) THEN << >>
    ELSE files[args[i]].data \o ConcatFrom(files, args, i + 1)

\* every input getContent has to read can be read to its end
InputsReadable ==
    IF Len(env.args) = 0 THEN env.stdin.state = "ok"
    ELSE \A i \in 1..Len(env.args) : env.files[env.args[i]].state = "ok"

\* the whole of the input, as lines
WholeDocument ==
    Lines(IF Len(env.args) = 0 THEN env.stdin.data
          ELSE ConcatFrom(env.files, env.args, 1))

\* C11: startup checks the engine, then loads the document, then creates the
\* session.  With the engine missing nothing is read; with the engine missing
\* or an input unreadable the program ends with a non-zero status, no
\* evaluation is invoked and no session starts; a session that starts holds
\* the whole document.
C11_StartupFailsBeforeSession ==
    /\ []( ~env.jqInstalled => load = [ sb |-> << >>, next |-> 1 ] )
    /\ []( (~env.jqInstalled \/ ~InputsReadable)
             => (pc # "running" /\ pc # "newModel" /\ nEvals = 0) )
    /\ []( pc = "fatal" => (exitStatus = 1 /\ nEvals = 0 /\ content = << >>) )
    /\ []( pc = "running" => (nEvals = 1 /\ content = WholeDocument) )
    /\ [][ nEvals' # nEvals => (pc = "newModel" /\ pc' = "running") ]_vars
    /\ [][ pc = "fatal" => FALSE ]_vars

\* C11 witness: the second of two listed files failed in the middle of the
\* read, after the first was read whole, and the program ended.
C11_Witness ==
    /\ pc = "fatal"
    /\ env.jqInstalled
    /\ Len(env.args) = 2
    /\ load.next = 2
    /\ env.files[env.args[2]].state = "readerr"
    /\ Len(load.sb) > Len(env.files[env.args[1]].data)
    /\ env.files[env.args[1]].data # << >>

\* C12: the document of the session is, with file arguments, the contents of
\* the files in argument order with nothing between them, and without file
\* arguments the content of standard input, the empty document when that is
\* empty.
C12_DocumentIsConcatenation ==
    pc = "running" =>
        /\ Len(env.args) > 0 => content = Lines(ConcatFrom(env.files, env.args, 1))
        /\ Len(env.args) = 0 => content = Lines(env.stdin.data)
        /\ (Len(env.args) = 0 /\ env.stdin.data = << >>) => content = DocEmpty

\* C12 witness: a session started from two different non-empty files.
C12_Witness ==
    /\ pc = "running"
    /\ Len(env.args) = 2
    /\ env.args[1] # env.args[2]
    /\ env.files[env.args[1]].data # << >>
    /\ env.files[env.args[2]].data # << >>
    /\ env.files[env.args[1]].data # env.files[env.args[2]].data

\* C13: the submit binding is enabled exactly when the Input Field holds input
\* capture, which is exactly when the focus is InputFocused.
C13_FocusIndicatorsAgree ==
    /\ evalEnabled <=> textinput.focus
    /\ textinput.focus <=> InputFocused

\* C13 witness: after a submit, a toggle moved the focus to the Viewport and
\* the submit binding is disabled.
C13_Witness ==
    /\ lastEvent = "tab"
    /\ ViewportFocused
    /\ ~evalEnabled
    /\ ~textinput.focus
    /\ nEvals > 1

\* C14: a key other than quit, toggle and submit changes at most the widget
\* that holds focus: the Viewport is unchanged while InputFocused, the Input
\* Field is unchanged while ViewportFocused, and no evaluation is invoked and
\* lastResult is unchanged.
C14_OtherKeyGoesToFocusedWidget ==
    [][ lastEvent' = "key"
          => /\ InputFocused => viewport' = viewport
             /\ InputFocused => /\ textinput'.focus = textinput.focus
                                /\ textinput'.Width = textinput.Width
             /\ ViewportFocused => textinput' = textinput
             /\ ViewportFocused => /\ viewport'.lines = viewport.lines
                                   /\ viewport'.Width = viewport.Width
                                   /\ viewport'.Height = viewport.Height
             /\ UNCHANGED << content, result, nEvals, lastCall, focusViewport,
                             evalEnabled, ready, helpWidth >> ]_vars

\* C14 witness: a space was typed into the focused Input Field while the
\* Viewport, for which space is page down, could have been scrolled.
C14_Witness ==
    /\ lastEvent = "key"
    /\ InputFocused
    /\ textinput.value # << >>
    /\ textinput.value[Len(textinput.value)] = " "
    /\ ready
    /\ viewport.YOffset < maxYOffset(viewport)

\* C15: at most one evaluation is in flight; while one is, Update is inside
\* the enter branch, the only step that can follow is the return of the
\* engine, and no event is accepted.
C15_EvaluationBlocksEventLoop ==
    /\ [](inFlight \in { 0, 1 })
    /\ [](inFlight = 1 <=> pc \in Evaluating)
    /\ [][ (pc \in Evaluating)
             => /\ inFlight' = 0
                /\ lastEvent' = "enter"
                /\ pc' \in { "running", "quit" }
                /\ UNCHANGED << content, textinput, focusViewport, ready,
                                evalEnabled, helpWidth, nEvals, lastCall,
                                tabParity, stdout, exitStatus >> ]_vars
    /\ []( pc \in Evaluating
             => /\ ~ENABLED UpdateQuit
                /\ ~ENABLED UpdateTab
                /\ ~ENABLED UpdateEnterCall
                /\ ~ENABLED UpdateEnterBlurred
                /\ \A k \in Keys : ~ENABLED UpdateKey(k)
                /\ \A s \in Sizes : ~ENABLED UpdateWindowSize(s[1], s[2])
                /\ ~ENABLED MainPrint
                /\ ~ENABLED MainRunFails )

\* C15 witness: the engine is running for the second submit of the session.
C15_Witness == pc \in Evaluating /\ inFlight = 1 /\ nEvals = 3 /\ ready

\* C16: the engine is invoked once at session creation and once by each
\* submit handled while InputFocused, and by nothing else.
C16_OneEvaluationPerSubmit ==
    /\ nEvals = 1
    /\ [][ IF InputFocused /\ lastEvent' = "enter" /\ pc' = pc
           THEN nEvals' = nEvals + 1
           ELSE nEvals' = nEvals ]_vars

\* C16 witness: two submits were accepted, and later a toggle and a resize
\* were handled without a further call.
C16_Witness ==
    /\ nEvals = 3
    /\ lastEvent = "resize"
    /\ ViewportFocused

\* C17: after a resize to (W, H) the Viewport is W wide and H - 3 high (one
\* line of Input Field, one margin line and one line of help), and the Input
\* Field and the help are W wide.
C17_ResizeSetsDimensions ==
    lastEvent = "resize" =>
        \E s \in Sizes :
            /\ viewport.Width = s[1]
            /\ viewport.Height = s[2] - 3
            /\ textinput.Width = s[1]
            /\ helpWidth = s[1]

\* C17 witness: a resize to the larger size was handled with the Viewport
\* focused and scrolled, hence not the first resize.
C17_Witness ==
    /\ lastEvent = "resize"
    /\ ViewportFocused
    /\ viewport.YOffset > 0
    /\ viewport.Width = 30
    /\ viewport.Height = 3

C19_ViewportShowsLastResult == ready => viewport.lines = result

\* C19 witness: a resize was handled after a submit whose result differs from
\* the initial one, with no scrolling since.
C19_Witness ==
    /\ lastEvent = "resize"
    /\ ready
    /\ nEvals > 1
    /\ result # Engine(content, Dot).text
    /\ viewport.lines = result
    /\ InputFocused

\* C20: a toggle leaves the Input Field text and width, lastResult, the
\* Viewport and ready unchanged and invokes no evaluation.
C20_ToggleChangesOnlyFocus ==
    [][ lastEvent' = "tab"
          => /\ textinput'.value = textinput.value
             /\ textinput'.Width = textinput.Width
             /\ UNCHANGED << content, result, viewport, ready, helpWidth,
                             nEvals, lastCall >> ]_vars

\* C20 witness: the focus went to the Viewport, which was scrolled, and came
\* back to an Input Field that still holds its text.
C20_Witness ==
    /\ lastEvent = "tab"
    /\ InputFocused
    /\ tabParity = 0
    /\ viewport.YOffset > 0
    /\ textinput.value # << >>

====
